---- MODULE Spec2Model ----
(***************************************************************************)
(* A model of txkube's functional object model (txkube/_model.py): the    *)
(* sorted collections (_List.add / _List.replace / item_by_name), the      *)
(* per-kind fill_defaults, the raw codec (iobject_to_raw /                 *)
(* iobject_from_raw) and the path resolver collection_location.            *)
(*                                                                         *)
(* The state is what one caller holds: `this` is the object it currently  *)
(* works with (a collection, a resource value, a bare type or a raw       *)
(* record), `call` describes the last call it made and `uuids` lists the  *)
(* identifiers fill_defaults has handed out.                               *)
(*                                                                         *)
(* Representation of Python values:                                        *)
(*   - a unicode string is a sequence of one-character strings;            *)
(*   - None, where a string may stand, is NoneStr: the one sequence whose  *)
(*     element is not a character; where an object may stand it is NoneObj;*)
(*   - a PClass instance is a record holding its class name in `cls` and   *)
(*     exactly the fields that were set (an unset field is not in DOMAIN); *)
(*   - a dict is a function whose DOMAIN is its key set.                   *)
(***************************************************************************)
EXTENDS Integers, Sequences, FiniteSets, TLC

VARIABLES this, uuids, call

vars == <<this, uuids, call>>

(***************************************************************************)
(* Bounds of the model.                                                    *)
(***************************************************************************)
MaxItems == 3
MaxUuids == 2

(***************************************************************************)
(* Strings.                                                                *)
(***************************************************************************)
NoneStr == <<"<None>">>
NoneObj == [None |-> TRUE]

ord ==
  [A |-> 65, C |-> 67, M |-> 77, N |-> 78, P |-> 80,
   a |-> 97, b |-> 98, c |-> 99, d |-> 100, e |-> 101, f |-> 102,
   g |-> 103, h |-> 104, i |-> 105, l |-> 108, m |-> 109, n |-> 110,
   o |-> 111, p |-> 112, s |-> 115, t |-> 116, v |-> 118, x |-> 120,
   y |-> 121]

\* Python 2 comparison of two unicode strings: code point by code point,
\* a proper prefix being the lesser.
RECURSIVE unicode_lt(_, _)
unicode_lt(s, t) ==
  IF t = <<>> THEN FALSE
  ELSE IF s = <<>> THEN TRUE
  ELSE IF ord[Head(s)] # ord[Head(t)] THEN ord[Head(s)] < ord[Head(t)]
  ELSE unicode_lt(Tail(s), Tail(t))

\* Python 2 comparison of two values each of which is None or unicode:
\* None is less than every string.
cmp_lt(a, b) ==
  IF a = NoneStr THEN b # NoneStr
  ELSE IF b = NoneStr THEN FALSE
  ELSE unicode_lt(a, b)

\* Python 2 comparison of two (namespace, name) tuples.
tuple_lt(k1, k2) ==
  IF k1[1] # k2[1] THEN cmp_lt(k1[1], k2[1]) ELSE cmp_lt(k1[2], k2[2])

(***************************************************************************)
(* Values of the resource model.                                           *)
(***************************************************************************)
Names == {<<"x">>, <<"x", "y">>}
Namespaces == {<<"a">>}
Data == {<<"d">>}
SampleUids == {<<"u", "0">>}

unicode_v1 == <<"v", "1">>
unicode_v1beta1 == <<"v", "1", "b", "e", "t", "a", "1">>
unicode_Active == <<"A", "c", "t", "i", "v", "e">>
unicode_Terminating == <<"T", "e", "r", "m", "i", "n", "a", "t", "i", "n", "g">>
unicode_Namespace == <<"N", "a", "m", "e", "s", "p", "a", "c", "e">>
unicode_ConfigMap == <<"C", "o", "n", "f", "i", "g", "M", "a", "p">>
unicode_Pod == <<"P", "o", "d">>
unicode_Mythical == <<"M", "y", "t", "h", "i", "c", "a", "l">>

\* The class-level kind and apiVersion of the IObject implementations:
\* Namespace and ConfigMap of the v1 catalog, and two classes outside it.
class_kind ==
  [Namespace |-> unicode_Namespace, ConfigMap |-> unicode_ConfigMap,
   Pod |-> unicode_Pod, Mythical |-> unicode_Mythical]

class_apiVersion ==
  [Namespace |-> unicode_v1, ConfigMap |-> unicode_v1,
   Pod |-> unicode_v1, Mythical |-> unicode_v1beta1]

\* The fields of each schema-derived class and the type of each field.
class_fields ==
  [Namespace |-> [metadata |-> "ObjectMeta", status |-> "NamespaceStatus"],
   ConfigMap |-> [metadata |-> "ObjectMeta", data |-> "unicode"],
   Pod |-> [metadata |-> "ObjectMeta"],
   Mythical |-> [metadata |-> "ObjectMeta"],
   ObjectMeta |-> [name |-> "unicode", namespace |-> "unicode",
                   uid |-> "unicode"],
   NamespaceStatus |-> [phase |-> "unicode"]]

\* v1.ObjectMeta(name=name), as Namespace.named builds it.
ObjectMeta_name(name) == [cls |-> "ObjectMeta", name |-> name]

\* v1.ObjectMeta(namespace=namespace, name=name), as ConfigMap.named
\* builds it.
ObjectMeta_namespace_name(namespace, name) ==
  [cls |-> "ObjectMeta", namespace |-> namespace, name |-> name]

NamespaceStatus_active == [cls |-> "NamespaceStatus", phase |-> unicode_Active]

NamespaceStatus_terminating ==
  [cls |-> "NamespaceStatus", phase |-> unicode_Terminating]

Namespace_named(name) ==
  [cls |-> "Namespace", metadata |-> ObjectMeta_name(name), status |-> NoneObj]

ConfigMap_named(namespace, name) ==
  [cls |-> "ConfigMap", metadata |-> ObjectMeta_namespace_name(namespace, name)]

\* A ConfigMap that also carries a data field.
ConfigMap_with_data(namespace, name, data) ==
  [cls |-> "ConfigMap",
   metadata |-> ObjectMeta_namespace_name(namespace, name), data |-> data]

\* A Namespace as a server hands it out: with a uid and a status.
Namespace_stored(name, uid) ==
  [cls |-> "Namespace",
   metadata |-> [cls |-> "ObjectMeta", name |-> name, uid |-> uid],
   status |-> NamespaceStatus_active]

ConfigMaps ==
  {ConfigMap_named(ns, n) : ns \in Namespaces \cup {NoneStr}, n \in Names}
  \cup {ConfigMap_with_data(ns, n, d) :
          ns \in Namespaces \cup {NoneStr}, n \in Names, d \in Data}

NamespaceValues ==
  {Namespace_named(n) : n \in Names}
  \cup {Namespace_stored(n, u) : n \in Names, u \in SampleUids}

\* What a collection class holds.
Members(listCls) ==
  IF listCls = "NamespaceList" THEN NamespaceValues ELSE ConfigMaps

\* pclass.transform([field], value): a new instance with that one field
\* set, the other fields as they were.
transform(obj, field, value) ==
  [f \in DOMAIN obj \cup {field} |-> IF f = field THEN value ELSE obj[f]]

(***************************************************************************)
(* Default filling.                                                        *)
(***************************************************************************)
Digits == <<"1", "2", "3", "4", "5", "6", "7", "8", "9">>

\* unicode(uuid4()): the text of a version-4 UUID.  uuid4 is taken to
\* deliver, at its n-th call, an identifier none of the earlier calls
\* delivered.
unicode_uuid4(n) == <<"u", Digits[n]>>

\* Namespace.fill_defaults with the uid drawn once, when the class is
\* defined, rather than at every call.
Namespace_fill_defaults_one_uuid(self, generated) ==
  [raised |-> "",
   value |-> transform(
               transform(self, "metadata",
                         transform(self.metadata, "uid", unicode_uuid4(1))),
               "status", NamespaceStatus_active),
   self |-> self]

\* Namespace.fill_defaults, at the moment `generated` identifiers have been
\* drawn: the outcome, with the receiver as it is after the call.
Namespace_fill_defaults(self, generated) ==
  [raised |-> "",
   value |-> transform(
               transform(self, "metadata",
                         transform(self.metadata, "uid",
                                   unicode_uuid4(generated + 1))),
               "status", NamespaceStatus_active),
   self |-> self]

\* ConfigMap.fill_defaults
ConfigMap_fill_defaults(self) ==
  [raised |-> "", value |-> self, self |-> self]

(***************************************************************************)
(* The collection model.                                                   *)
(***************************************************************************)
\* getattr(obj.metadata, "namespace", None)
getattr_namespace(metadata) ==
  IF "namespace" \in DOMAIN metadata THEN metadata.namespace ELSE NoneStr

\* object_sort_key without the name.
object_sort_key_namespace_only(obj) ==
  <<getattr_namespace(obj.metadata), <<>> >>

object_sort_key(obj) == <<getattr_namespace(obj.metadata), obj.metadata.name>>

\* One step of a stable sort: obj goes after every element whose key is not
\* greater than its own.
RECURSIVE insort(_, _)
insort(sortedSeq, obj) ==
  IF sortedSeq = <<>> THEN <<obj>>
  ELSE IF tuple_lt(object_sort_key(obj), object_sort_key(Head(sortedSeq)))
       THEN <<obj>> \o sortedSeq
       ELSE <<Head(sortedSeq)>> \o insort(Tail(sortedSeq), obj)

\* sorted(seq, key=object_sort_key): Python's sort is stable.
RECURSIVE sorted(_)
sorted(seq) ==
  IF seq = <<>> THEN <<>>
  ELSE insort(sorted(SubSeq(seq, 1, Len(seq) - 1)), seq[Len(seq)])

\* add(value)(pvector) without the sort.
add_unsorted(value, pvector) == Append(pvector, value)

\* add(value)(pvector)
add(value, pvector) == sorted(Append(pvector, value))

\* The index of the first occurrence of value, 0 when there is none.
index(pvector, value) ==
  IF \E i \in 1..Len(pvector) : pvector[i] = value
  THEN CHOOSE i \in 1..Len(pvector) :
         /\ pvector[i] = value
         /\ \A j \in 1..(i - 1) : pvector[j] # value
  ELSE 0

\* remove(value)(pvector) dropping the last item instead of the first
\* occurrence of value.
remove_last(value, pvector) ==
  IF index(pvector, value) = 0
  THEN [raised |-> "ValueError"]
  ELSE [raised |-> "", value |-> SubSeq(pvector, 1, Len(pvector) - 1)]

\* remove(value)(pvector): pvector.remove drops the first occurrence and
\* raises ValueError when there is none.
remove(value, pvector) ==
  LET i == index(pvector, value)
  IN IF i = 0
     THEN [raised |-> "ValueError"]
     ELSE [raised |-> "",
           value |-> SubSeq(pvector, 1, i - 1)
                       \o SubSeq(pvector, i + 1, Len(pvector))]

\* _List.item_by_name: the first item of that name, KeyError when there
\* is none.
item_by_name(self, name) ==
  IF \E i \in 1..Len(self) : self[i].metadata.name = name
  THEN [raised |-> "",
        value |-> self[CHOOSE i \in 1..Len(self) :
                         /\ self[i].metadata.name = name
                         /\ \A j \in 1..(i - 1) : self[j].metadata.name # name],
        self |-> self]
  ELSE [raised |-> "KeyError", self |-> self]

\* _List.add appending to the receiver's own items and sorting them in
\* place.
List_add_in_place(self, obj) ==
  [raised |-> "", value |-> add(obj, self), self |-> add(obj, self)]

\* _List.add: the outcome of self.add(obj), with the receiver's items as
\* they are after the call.
List_add(self, obj) ==
  [raised |-> "", value |-> add(obj, self), self |-> self]

\* _List.replace giving the receiver back when old is not a member.
List_replace_or_self(self, old, new) ==
  LET removed == remove(old, self)
  IN IF removed.raised # ""
     THEN [raised |-> "", value |-> self, self |-> self]
     ELSE [raised |-> "", value |-> add(new, removed.value), self |-> self]

\* _List.replace: the two transformations are applied in turn; an
\* exception of the first one leaves no result.
List_replace(self, old, new) ==
  LET removed == remove(old, self)
  IN IF removed.raised # ""
     THEN [raised |-> removed.raised, self |-> self]
     ELSE [raised |-> "", value |-> add(new, removed.value), self |-> self]

(***************************************************************************)
(* The raw codec.                                                          *)
(***************************************************************************)
\* dict.get(key, default)
get(dict, key, default) == IF key \in DOMAIN dict THEN dict[key] ELSE default

\* pmap.discard(key)
discard(dict, key) == [k \in DOMAIN dict \ {key} |-> dict[k]]

\* pclass.serialize(): the dict of the fields that are set, every nested
\* instance serialized in turn; the class itself is not part of it.
RECURSIVE serialize(_)
serialize(obj) ==
  [f \in DOMAIN obj \ {"cls"} |->
     IF class_fields[obj.cls][f] = "unicode" THEN obj[f]
     ELSE IF obj[f] = NoneObj THEN NoneObj
     ELSE serialize(obj[f])]

\* cls.create(dict): an instance of cls with the dict's entries as fields,
\* every nested dict made an instance of the field's class; a key that is
\* no field of cls is refused.
RECURSIVE create(_, _)
create(cls, dict) ==
  IF ~(DOMAIN dict \subseteq DOMAIN class_fields[cls])
  THEN [raised |-> "AttributeError"]
  ELSE [raised |-> "",
        value |-> [f \in DOMAIN dict \cup {"cls"} |->
                     IF f = "cls" THEN cls
                     ELSE IF class_fields[cls][f] = "unicode" THEN dict[f]
                     ELSE IF dict[f] = NoneObj THEN NoneObj
                     ELSE create(class_fields[cls][f], dict[f]).value]]

\* iobject_to_raw without the apiVersion.
iobject_to_raw_kind_only(obj) ==
  LET result == serialize(obj)
  IN [k \in DOMAIN result \cup {"kind"} |->
        IF k = "kind" THEN class_kind[obj.cls] ELSE result[k]]

iobject_to_raw(obj) ==
  LET result == serialize(obj)
  IN [k \in DOMAIN result \cup {"kind", "apiVersion"} |->
        IF k = "kind" THEN class_kind[obj.cls]
        ELSE IF k = "apiVersion" THEN class_apiVersion[obj.cls]
        ELSE result[k]]

\* The keys of _versions.
versions == {unicode_v1}

\* The IObject classes of the v1 catalog.
v1 == {"Namespace", "ConfigMap", "Pod"}

\* getattr(v1, kind): the class of that kind, "" when the catalog has none.
getattr_v1(kind) ==
  IF \E c \in v1 : class_kind[c] = kind
  THEN CHOOSE c \in v1 : class_kind[c] = kind
  ELSE ""

\* iobject_from_raw letting a hint that is given win over the record.
iobject_from_raw_hint_first(obj, kind_hint, version_hint) ==
  LET kind == IF kind_hint # NoneStr THEN kind_hint
              ELSE get(obj, "kind", kind_hint)
      apiVersion == IF version_hint # NoneStr THEN version_hint
                    ELSE get(obj, "apiVersion", version_hint)
  IN IF apiVersion \notin versions
     THEN [raised |-> "KeyError", obj |-> obj]
     ELSE IF kind = NoneStr
     THEN [raised |-> "TypeError", obj |-> obj]
     ELSE IF getattr_v1(kind) = ""
     THEN [raised |-> "UnknownKindError", obj |-> obj]
     ELSE LET others == discard(discard(obj, "kind"), "apiVersion")
              made == create(getattr_v1(kind), others)
          IN [k \in DOMAIN made \cup {"obj"} |->
                IF k = "obj" THEN obj ELSE made[k]]

\* iobject_from_raw: the outcome, with the record obj as the caller finds
\* it after the call (the function works on a frozen copy of it).
iobject_from_raw(obj, kind_hint, version_hint) ==
  LET kind == get(obj, "kind", kind_hint)
      apiVersion == get(obj, "apiVersion", version_hint)
  IN IF apiVersion \notin versions
     THEN [raised |-> "KeyError", obj |-> obj]
     ELSE IF kind = NoneStr
     THEN [raised |-> "TypeError", obj |-> obj]
     ELSE IF getattr_v1(kind) = ""
     THEN [raised |-> "UnknownKindError", obj |-> obj]
     ELSE LET others == discard(discard(obj, "kind"), "apiVersion")
              made == create(getattr_v1(kind), others)
          IN [k \in DOMAIN made \cup {"obj"} |->
                IF k = "obj" THEN obj ELSE made[k]]

(***************************************************************************)
(* The path resolver.                                                      *)
(***************************************************************************)
unicode_api == <<"a", "p", "i">>
unicode_apis == <<"a", "p", "i", "s">>
unicode_extensions == <<"e", "x", "t", "e", "n", "s", "i", "o", "n", "s">>
unicode_namespaces == <<"n", "a", "m", "e", "s", "p", "a", "c", "e", "s">>

lower_table == [A |-> "a", C |-> "c", M |-> "m", N |-> "n", P |-> "p",
                T |-> "t"]

\* unicode.lower()
lower(s) ==
  [i \in 1..Len(s) |->
     IF s[i] \in DOMAIN lower_table THEN lower_table[s[i]] ELSE s[i]]

\* The group an apiVersion outside the core API belongs to.
group_of(apiVersion) == unicode_extensions

\* Rule 1: the base of the path.
version_to_segments(apiVersion) ==
  IF apiVersion = unicode_v1
  THEN <<unicode_api, unicode_v1>>
  ELSE <<unicode_apis, group_of(apiVersion), apiVersion>>

\* collection_location reading the namespace of a bare type as well.
collection_location_of_any(o, isInstance) ==
  LET prefix == version_to_segments(class_apiVersion[o.cls])
      collection == lower(class_kind[o.cls]) \o <<"s">>
      namespace == getattr_namespace(o.metadata)
  IN IF namespace = NoneStr \/ namespace = <<>>
     THEN prefix \o <<collection>>
     ELSE prefix \o <<unicode_namespaces, namespace, collection>>

\* collection_location(o), o being an instance (isInstance) or a bare type.
collection_location(o, isInstance) ==
  LET prefix == version_to_segments(class_apiVersion[o.cls])
      collection == lower(class_kind[o.cls]) \o <<"s">>
      namespace == IF isInstance THEN getattr_namespace(o.metadata)
                   ELSE NoneStr
  IN IF namespace = NoneStr \/ namespace = <<>>
     THEN prefix \o <<collection>>
     ELSE prefix \o <<unicode_namespaces, namespace, collection>>

(***************************************************************************)
(* The inputs.                                                             *)
(***************************************************************************)
\* Instances of the two classes the path resolver is tried on, built as
\* its tests build them: with nothing but a namespace in the metadata.
PathObjects ==
  {[cls |-> c, metadata |-> [cls |-> "ObjectMeta", namespace |-> ns]] :
     c \in {"Pod", "Mythical"}, ns \in Namespaces \cup {NoneStr}}

Objects == ConfigMaps \cup NamespaceValues \cup PathObjects

KindHints == {NoneStr, unicode_Namespace, unicode_ConfigMap, unicode_Mythical}
VersionHints == {NoneStr, unicode_v1, unicode_v1beta1}

\* The records a peer may send for a value: its raw form, with each of the
\* two discriminators left as it is, left out or naming something else.
RawOf(obj) ==
  LET raw == iobject_to_raw(obj)
      kinds == {raw} \cup {discard(raw, "kind")}
                 \cup {transform(raw, "kind", k) : k \in KindHints \ {NoneStr}}
  IN kinds \cup {discard(r, "apiVersion") : r \in kinds}
           \cup {transform(r, "apiVersion", v) :
                   r \in kinds, v \in VersionHints \ {NoneStr}}

RawRecords == UNION {RawOf(obj) : obj \in Objects}

\* The record of a call: the operation, the receiver (or input) as it was
\* before the call, and the outcome.
Record(op, before, outcome) ==
  [k \in {"op", "before"} \cup DOMAIN outcome |->
     IF k = "op" THEN op ELSE IF k = "before" THEN before ELSE outcome[k]]

(***************************************************************************)
(* The state machine.                                                      *)
(***************************************************************************)
Init ==
  /\ this \in
       {[type |-> "list", cls |-> c, items |-> <<>>] :
          c \in {"NamespaceList", "ConfigMapList"}}
       \cup {[type |-> "object", obj |-> o] : o \in Objects}
       \cup {[type |-> "class", obj |-> o] : o \in PathObjects}
       \cup {[type |-> "raw", raw |-> r] : r \in RawRecords}
  /\ uuids = <<>>
  /\ call = [op |-> "init"]

\* Namespace.named(name): the caller goes on with a freshly named namespace.
NamespaceNamed ==
  \E name \in Names :
    /\ this' = [type |-> "object", obj |-> Namespace_named(name)]
    /\ call' = [op |-> "named", value |-> Namespace_named(name)]
    /\ UNCHANGED uuids

\* obj.fill_defaults(): the caller goes on with the returned value.
FillDefaults ==
  /\ this.type = "object"
  /\ this.obj.cls \in {"Namespace", "ConfigMap"}
  /\ IF this.obj.cls = "Namespace"
     THEN /\ Len(uuids) < MaxUuids
          /\ LET r == Namespace_fill_defaults(this.obj, Len(uuids))
             IN /\ call' = Record("fill_defaults", this.obj, r)
                /\ this' = [type |-> "object", obj |-> r.value]
                /\ uuids' = Append(uuids, r.value.metadata.uid)
     ELSE /\ LET r == ConfigMap_fill_defaults(this.obj)
             IN /\ call' = Record("fill_defaults", this.obj, r)
                /\ this' = [type |-> "object", obj |-> r.value]
          /\ UNCHANGED uuids

\* list.add(obj): the caller goes on with the returned collection.
Add ==
  /\ this.type = "list"
  /\ Len(this.items) < MaxItems
  /\ \E obj \in Members(this.cls) :
       LET r == List_add(this.items, obj)
       IN /\ call' = transform(Record("add", this.items, r), "obj", obj)
          /\ this' = [this EXCEPT !.items = r.value]
  /\ UNCHANGED uuids

\* list.replace(old, new): the caller goes on with the returned collection,
\* or with the one it had when the call raises.
Replace ==
  /\ this.type = "list"
  /\ \E old \in Members(this.cls), new \in Members(this.cls) :
       LET r == List_replace(this.items, old, new)
       IN /\ call' = transform(transform(Record("replace", this.items, r),
                                         "old", old), "new", new)
          /\ this' = [this EXCEPT !.items =
                        IF r.raised = "" THEN r.value ELSE r.self]
  /\ UNCHANGED uuids

\* list.item_by_name(name)
ItemByName ==
  /\ this.type = "list"
  /\ \E name \in Names :
       LET r == item_by_name(this.items, name)
       IN /\ call' = transform(Record("item_by_name", this.items, r),
                               "name", name)
          /\ this' = [this EXCEPT !.items = r.self]
  /\ UNCHANGED uuids

\* iobject_to_raw(obj): the caller goes on with the raw record.
ToRaw ==
  /\ this.type = "object"
  /\ call' = [op |-> "to_raw", before |-> this.obj,
              value |-> iobject_to_raw(this.obj)]
  /\ this' = [type |-> "raw", raw |-> iobject_to_raw(this.obj)]
  /\ UNCHANGED uuids

\* iobject_from_raw(record, kind_hint, version_hint): the caller goes on
\* with the loaded object, or with the record when the call raises.
FromRaw ==
  /\ this.type = "raw"
  /\ \E kind_hint \in KindHints, version_hint \in VersionHints :
       LET r == iobject_from_raw(this.raw, kind_hint, version_hint)
       IN /\ call' = transform(transform(Record("from_raw", this.raw, r),
                                         "kind_hint", kind_hint),
                               "version_hint", version_hint)
          /\ this' = IF r.raised = ""
                     THEN [type |-> "object", obj |-> r.value]
                     ELSE [type |-> "raw", raw |-> r.obj]
  /\ UNCHANGED uuids

\* collection_location(o) for the instance or the bare type at hand.
CollectionLocation ==
  /\ this.type \in {"object", "class"}
  /\ call' = [op |-> "collection_location", before |-> this.obj,
              instance |-> (this.type = "object"),
              value |-> collection_location(this.obj, this.type = "object")]
  /\ UNCHANGED <<this, uuids>>

Next ==
  \/ NamespaceNamed
  \/ FillDefaults
  \/ Add
  \/ Replace
  \/ ItemByName
  \/ ToRaw
  \/ FromRaw
  \/ CollectionLocation

Spec == Init /\ [][Next]_vars

(***************************************************************************)
(* Vocabulary of the properties.                                           *)
(***************************************************************************)
IsList == this.type = "list"

\* The order the collections are meant to keep: by namespace, no namespace
\* first, then by name.
InOrder(a, b) ==
  LET na == getattr_namespace(a.metadata)
      nb == getattr_namespace(b.metadata)
  IN \/ na = NoneStr /\ nb # NoneStr
     \/ na # NoneStr /\ nb # NoneStr /\ unicode_lt(na, nb)
     \/ /\ na = nb
        /\ \/ a.metadata.name = b.metadata.name
           \/ unicode_lt(a.metadata.name, b.metadata.name)

SameKey(a, b) ==
  /\ getattr_namespace(a.metadata) = getattr_namespace(b.metadata)
  /\ a.metadata.name = b.metadata.name

\* No two items of the sequence have the same (namespace, name).
UniqueKeys(seq) ==
  \A i \in 1..Len(seq) : \A j \in 1..Len(seq) :
    i # j => ~SameKey(seq[i], seq[j])

\* The collection that add()-ing the members of seq, in that order, to an
\* empty collection builds.
RECURSIVE AddAll(_)
AddAll(seq) ==
  IF seq = <<>> THEN <<>>
  ELSE add(seq[Len(seq)], AddAll(SubSeq(seq, 1, Len(seq) - 1)))

Orders(n) == {f \in [1..n -> 1..n] : \A i \in 1..n : \E j \in 1..n : f[j] = i}

InEveryOrder(seq) ==
  \A f \in Orders(Len(seq)) :
    AddAll([i \in 1..Len(seq) |-> seq[f[i]]]) = seq

(***************************************************************************)
(* C1: every collection built from an empty one by add and successful      *)
(* replace calls is sorted ascending by (namespace, name), a member        *)
(* without a namespace coming before every member that has one: each item   *)
(* is in order with the item that follows it.                              *)
(***************************************************************************)
C1_Sorted ==
  IsList =>
    \A i \in 1..(Len(this.items) - 1) :
      InOrder(this.items[i], this.items[i + 1])

\* A collection of three members, two of them added out of order, that
\* mixes members with and without a namespace.
C1_Witness ==
  /\ IsList
  /\ call.op = "add"
  /\ Len(this.items) = 3
  /\ this.items[3] # call.obj
  /\ getattr_namespace(this.items[1].metadata) = NoneStr
  /\ getattr_namespace(this.items[3].metadata) # NoneStr
  /\ this.items[1].metadata.name # this.items[2].metadata.name

(***************************************************************************)
(* C2, as claimed: in every collection built from an empty one by add and  *)
(* replace calls, no two items have the same (namespace, name).            *)
(***************************************************************************)
C2_UniqueAfterAnyCalls == IsList => UniqueKeys(this.items)

(***************************************************************************)
(* C2, amended: a collection without two items of the same (namespace,     *)
(* name) stays so under an add whose value has a (namespace, name) that no *)
(* item has yet, and under a replace whose new value has the (namespace,   *)
(* name) of old or one that no item has yet.                               *)
(***************************************************************************)
C2_UniqueWhenCallerAvoidsDuplicates ==
  [][(/\ IsList
      /\ UniqueKeys(this.items)
      /\ \/ /\ call'.op = "add"
            /\ \A i \in 1..Len(this.items) : ~SameKey(this.items[i], call'.obj)
         \/ /\ call'.op = "replace"
            /\ \/ SameKey(call'.old, call'.new)
               \/ \A i \in 1..Len(this.items) :
                    ~SameKey(this.items[i], call'.new))
     => UniqueKeys(this'.items)]_vars

\* A replace of a member by another value of the same (namespace, name),
\* in a collection of three members of three different keys.
C2_Witness ==
  /\ IsList
  /\ call.op = "replace"
  /\ call.raised = ""
  /\ call.old # call.new
  /\ SameKey(call.old, call.new)
  /\ Len(this.items) = 3
  /\ UniqueKeys(call.before)
  /\ UniqueKeys(this.items)

(***************************************************************************)
(* C3: when old is a member of C and new has the name of old,              *)
(* C.replace(old, new) has as many items as C and its item_by_name(name)   *)
(* is new, whatever C holds: members of several namespaces included.  It   *)
(* is stated for the collections that have one member per (namespace,      *)
(* name), before the call and after it.                                    *)
(***************************************************************************)
C3_ReplaceThenLookup ==
  (/\ call.op = "replace"
   /\ call.raised = ""
   /\ UniqueKeys(call.before)
   /\ UniqueKeys(call.value)
   /\ call.new.metadata.name = call.old.metadata.name)
  => /\ Len(call.value) = Len(call.before)
     /\ item_by_name(call.value, call.new.metadata.name).raised = ""
     /\ item_by_name(call.value, call.new.metadata.name).value = call.new

(***************************************************************************)
(* C4: when old is not a member of C, C.replace(old, new) raises the       *)
(* error of the removal, returns no collection, and C still has the items  *)
(* it had.                                                                 *)
(***************************************************************************)
C4_ReplaceOfMissingFails ==
  (/\ call.op = "replace"
   /\ \A i \in 1..Len(call.before) : call.before[i] # call.old)
  => /\ call.raised = "ValueError"
     /\ "value" \notin DOMAIN call
     /\ call.self = call.before
     /\ this.items = call.before

\* A failed replace on a collection that has members, with a new value the
\* collection does not hold.
C4_Witness ==
  /\ call.op = "replace"
  /\ call.raised # ""
  /\ Len(call.before) >= 2
  /\ \A i \in 1..Len(call.before) :
       call.before[i] # call.old /\ call.before[i] # call.new

(***************************************************************************)
(* C5: for every value v of a kind of the v1 catalog, the raw form of v    *)
(* carries the kind and apiVersion of v's class, and loading it gives v    *)
(* back; a successful load builds its value from exactly the keys of the   *)
(* record other than kind and apiVersion.                                  *)
(***************************************************************************)
C5_RoundTrip ==
  /\ (call.op = "to_raw" /\ call.before.cls \in v1)
     => /\ {"kind", "apiVersion"} \subseteq DOMAIN call.value
        /\ call.value.kind = class_kind[call.before.cls]
        /\ call.value.apiVersion = class_apiVersion[call.before.cls]
        /\ iobject_from_raw(call.value, NoneStr, NoneStr).raised = ""
        /\ iobject_from_raw(call.value, NoneStr, NoneStr).value = call.before
  /\ (call.op = "from_raw" /\ call.raised = "")
     => DOMAIN call.value \ {"cls"} = DOMAIN call.before \ {"kind", "apiVersion"}

\* The raw form of a namespace whose defaults were filled, loaded again.
C5_Witness ==
  /\ call.op = "from_raw"
  /\ call.raised = ""
  /\ call.value.cls = "Namespace"
  /\ "uid" \in DOMAIN call.value.metadata
  /\ Len(uuids) > 0
  /\ call.value.metadata.uid = uuids[Len(uuids)]
  /\ call.before = iobject_to_raw(call.value)

(***************************************************************************)
(* C6: collection_location(o) is ("api", "v1") for apiVersion v1 and       *)
(* ("apis", "extensions", "v1beta1") for v1beta1, then ("namespaces",      *)
(* namespace) exactly when o is an instance whose metadata has a non-empty *)
(* namespace, then the lower-cased kind with "s" appended.                 *)
(***************************************************************************)
ExpectedCollection ==
  [Namespace |-> <<"n", "a", "m", "e", "s", "p", "a", "c", "e", "s">>,
   ConfigMap |-> <<"c", "o", "n", "f", "i", "g", "m", "a", "p", "s">>,
   Pod |-> <<"p", "o", "d", "s">>,
   Mythical |-> <<"m", "y", "t", "h", "i", "c", "a", "l", "s">>]

C6_CollectionLocation ==
  call.op = "collection_location" =>
    LET o == call.before
        namespace == getattr_namespace(o.metadata)
        base == IF class_apiVersion[o.cls] = <<"v", "1">>
                THEN << <<"a", "p", "i">>, <<"v", "1">> >>
                ELSE << <<"a", "p", "i", "s">>,
                        <<"e", "x", "t", "e", "n", "s", "i", "o", "n", "s">>,
                        <<"v", "1", "b", "e", "t", "a", "1">> >>
        scope == IF call.instance /\ namespace # NoneStr /\ namespace # <<>>
                 THEN << <<"n", "a", "m", "e", "s", "p", "a", "c", "e", "s">>,
                         namespace >>
                 ELSE <<>>
    IN call.value = base \o scope \o <<ExpectedCollection[o.cls]>>

\* The path of a bare type outside the core API whose metadata names a
\* namespace.
C6_Witness ==
  /\ call.op = "collection_location"
  /\ ~call.instance
  /\ call.before.cls = "Mythical"
  /\ getattr_namespace(call.before.metadata) # NoneStr
  /\ Len(call.value) = 4

(***************************************************************************)
(* C7, as claimed: the item sequence of a collection depends only on its   *)
(* members, not on the order they were added in: add()-ing the members of  *)
(* a collection to an empty one, in any order, builds the sequence the     *)
(* collection has (so that C.add(a).add(b) = C.add(b).add(a)).             *)
(***************************************************************************)
C7_OrderIndependent == IsList => InEveryOrder(this.items)

(***************************************************************************)
(* C7, amended: the same for members no two of which have the same         *)
(* (namespace, name): add()-ing the members of such a collection to an     *)
(* empty one, in any order, builds the sequence the collection has.        *)
(***************************************************************************)
C7_OrderIndependentForDistinctKeys ==
  (IsList /\ UniqueKeys(this.items)) => InEveryOrder(this.items)

\* Three members of three different keys, the last one added not being the
\* last item.
C7_Witness ==
  /\ IsList
  /\ call.op = "add"
  /\ Len(this.items) = 3
  /\ UniqueKeys(this.items)
  /\ this.items[3] # call.obj

(***************************************************************************)
(* C8: fill_defaults of a namespace returns a value of the same name with  *)
(* a non-empty uid, the one just generated, and the status phase Active;   *)
(* no two of the uids fill_defaults handed out are the same; and           *)
(* fill_defaults of a ConfigMap returns the ConfigMap as it is.            *)
(***************************************************************************)
C8_FillDefaults ==
  /\ (call.op = "fill_defaults" /\ call.before.cls = "Namespace")
     => /\ call.value.cls = "Namespace"
        /\ "name" \in DOMAIN call.before.metadata
             => /\ "name" \in DOMAIN call.value.metadata
                /\ call.value.metadata.name = call.before.metadata.name
        /\ "uid" \in DOMAIN call.value.metadata
        /\ call.value.metadata.uid \notin {NoneStr, <<>>}
        /\ call.value.metadata.uid = uuids[Len(uuids)]
        /\ call.value.status # NoneObj
        /\ call.value.status.phase = <<"A", "c", "t", "i", "v", "e">>
  /\ \A i \in 1..Len(uuids) : \A j \in 1..Len(uuids) :
       i # j => uuids[i] # uuids[j]
  /\ (call.op = "fill_defaults" /\ call.before.cls = "ConfigMap")
     => call.value = call.before

\* The second of two named namespaces to have its defaults filled.
C8_Witness ==
  /\ call.op = "fill_defaults"
  /\ call.before.cls = "Namespace"
  /\ call.before \in {Namespace_named(n) : n \in Names}
  /\ Len(uuids) = 2

C10_NothingChangedInPlace ==
  /\ call.op \in {"add", "replace", "item_by_name", "fill_defaults"}
       => call.self = call.before
  /\ call.op = "from_raw"
       => /\ call.obj = call.before
          /\ DOMAIN call.obj = DOMAIN call.before
  /\ (call.op = "replace" /\ call.raised # "")
       => this.items = call.before

\* A replace that returned a collection other than the receiver.
C10_Witness ==
  /\ call.op = "replace"
  /\ call.raised = ""
  /\ Len(call.before) = 3
  /\ call.value # call.before
  /\ this.items = call.value

====
